---- MODULE Spec2Model ----
(***************************************************************************)
(* A model of evaluate.py, the resumable evaluation harness of datacomp:   *)
(* one process launch after another against one training output           *)
(* directory.  A launch parses its arguments, validates a submission,      *)
(* resolves the checkpoint and the result file, replays the result file,   *)
(* runs the task loop (skip or evaluate-and-append, one task at a time)    *)
(* and, when asked, walks the three submission steps.  The process may die *)
(* at any point; what the result file then holds is what had reached it.   *)
(***************************************************************************)
EXTENDS Integers, Sequences, FiniteSets, TLC

VARIABLES
    tasklist,     \* the content of tasklist.yml, an ordered mapping
    fs,           \* eval_results/<prefix>eval_results.jsonl, by prefix
    ckpt_dir,     \* [files: the files under checkpoints/, latest_epoch]
    status,       \* idle (never launched), running, or exit
    pc,           \* where the process is, or was when it ended: start, loop,
                  \* evaluating, appending, hf, db, slack
    args,         \* the parsed command line
    tasks,        \* tasks, as loaded at line 316
    prefix,       \* prefix, lines 273-280 and 307
    train_info,   \* train_info, lines 310 and 344
    results,      \* results: dataset name -> record
    idx,          \* the position of `for task_key in tasks`
    average,      \* average, line 391
    exit_status,  \* the exit status of the process that ended
    error,        \* what ended it: "" (ran to its end) or the exception
    printed,      \* the messages printed by this launch (tags)
    edited,       \* history: tasklist.yml was edited since the first launch
    completed,    \* history: by result file, the task keys whose append returned
    started,      \* history: by result file, the task keys ever evaluated
    evals,        \* history: the task keys evaluate_model was called with
    fs0,          \* history: the result files when this launch started
    steps,        \* history: the submission functions this launch entered
    calls,        \* history: the external requests this launch sent
    prev          \* history: how the launch before this one ended

vars == <<tasklist, fs, ckpt_dir, status, pc, args, tasks, prefix, train_info,
          results, idx, average, exit_status, error, printed, edited, completed,
          started, evals, fs0, steps, calls, prev>>

------------------------------------------------------------------------------
(* Bounds of the model *)

\* the evaluation collaborator reports accuracies 1..MaxMetric
MaxMetric == 1

------------------------------------------------------------------------------
(* Python values *)

\* None of an argparse default (strings)
None == "None"
\* None among numbers: JSON null
null == -1
\* {}
EmptyDict == <<>>

\* d.get(k, default)
Get(d, k, default) == IF k \in DOMAIN d THEN d[k] ELSE default

\* d[k] = v on a dict
Put(d, k, v) == (k :> v) @@ d

------------------------------------------------------------------------------
(* The task configuration: tasklist.yml, an ordered mapping                *)
(* key -> {name?, size?, main_metric?}                                     *)

Task(key, cfg) == [key |-> key, cfg |-> cfg]

TaskImageNet == Task("imagenet1k", ("name" :> "ImageNet 1k"))
TaskMnist == Task("mnist", ("main_metric" :> "mean_per_class_recall"))

\* the task lists of the model: the full one, and one with a task removed
TaskConfigs == { <<TaskImageNet, TaskMnist>>, <<TaskImageNet>> }

\* `key in tasks`
TaskKeys(ts) == {ts[i].key : i \in 1..Len(ts)}

\* tasks[task_key].get("name", task_key)
TaskName(t) == Get(t.cfg, "name", t.key)

\* tasks[task_key].get("main_metric", "acc1")
MainMetricName(t) == Get(t.cfg, "main_metric", "acc1")

------------------------------------------------------------------------------
(* The command line, lines 162-267 *)

DefaultArgs ==
    [epoch |-> -1, iter |-> -1, submit |-> FALSE, method_name |-> None,
     author |-> None, email |-> None, hf_username |-> None,
     hf_repo_name |-> None, samples |-> None, dataset_size |-> "",
     upload_checkpoint |-> FALSE, skip_hf |-> FALSE, skip_db |-> FALSE,
     skip_notification |-> FALSE]

\* the fields lines 283-297 assert
RequiredFields == {"method_name", "author", "email", "hf_username", "hf_repo_name"}

\* --submit with every provenance field given
SubmitArgs ==
    [DefaultArgs EXCEPT !.submit = TRUE, !.method_name = "method",
                        !.author = "author", !.email = "email",
                        !.hf_username = "user", !.hf_repo_name = "repo",
                        !.samples = "samples.json"]

\* the command lines the model launches the harness with
ArgChoices ==
    {DefaultArgs}
    \cup {[SubmitArgs EXCEPT !.skip_hf = h, !.skip_db = d, !.skip_notification = n] :
            h \in BOOLEAN, d \in BOOLEAN, n \in BOOLEAN}
    \cup {[SubmitArgs EXCEPT ![f] = None] : f \in RequiredFields}

------------------------------------------------------------------------------
(* Checkpoint resolver, lines 273-280 and 299-312 *)

CkptEpoch(n) == [stem |-> "epoch", n |-> n]
CkptIter(n) == [stem |-> "iter", n |-> n]
CkptLatest == [stem |-> "epoch_latest"]

PrefixEpoch(n) == [kind |-> "epoch", n |-> n]
PrefixIter(n) == [kind |-> "iter", n |-> n]
PrefixEmpty == [kind |-> ""]

\* what checkpoints/ may hold
CkptDirs == { [files |-> {CkptLatest}, latest_epoch |-> 0] }

\* the result files a launch of ArgChoices can name
ResultFiles == {PrefixEpoch(0)}

\* a selection that looks at --iter first
SelectPrefixIterFirst(a) ==
    IF a.iter >= 0 THEN PrefixIter(a.iter)
    ELSE IF a.epoch >= 0 THEN PrefixEpoch(a.epoch)
    ELSE PrefixEmpty

\* lines 273-280
SelectPrefix(a) ==
    IF a.epoch >= 0 THEN PrefixEpoch(a.epoch)
    ELSE IF a.iter >= 0 THEN PrefixIter(a.iter)
    ELSE PrefixEmpty

\* lines 300-303
CheckpointPath(a) ==
    IF a.epoch >= 0 THEN CkptEpoch(a.epoch)
    ELSE IF a.iter >= 0 THEN CkptIter(a.iter)
    ELSE CkptLatest

\* lines 304-309: torch.load of epoch_latest.pt; any failure is swallowed
ResolvePrefix(a, dir) ==
    IF a.epoch >= 0 \/ a.iter >= 0 THEN SelectPrefix(a)
    ELSE IF CkptLatest \in dir.files /\ dir.latest_epoch # null
         THEN PrefixEpoch(dir.latest_epoch)
         ELSE SelectPrefix(a)

\* line 310
TrainInfo(a) ==
    [scale_config |-> [model |-> ""], checkpoint |-> CheckpointPath(a)]

\* a check that warns and leaves the reference as it is
FallbackNone(ti, dir) == ti

\* lines 330-344
FallbackCheckpoint(ti, dir) ==
    IF ti.checkpoint \in dir.files THEN ti
    ELSE [ti EXCEPT !.checkpoint = CkptLatest]

------------------------------------------------------------------------------
(* The result file: a text of JSON documents and line ends *)

\* json.dumps(record): the text of one JSON object
JsonDumps(rec) == [kind |-> "json", val |-> rec]
\* "\n"
NL == [kind |-> "nl"]
\* a proper, non-empty prefix of json.dumps(record): never a JSON document
Frag == [kind |-> "frag"]

\* f.readlines(): the text cut after each "\n"; the line ends are dropped
\* here, as json.loads ignores them
RECURSIVE ReadLinesFrom(_, _)
ReadLinesFrom(text, line) ==
    IF text = <<>> THEN (IF line = <<>> THEN <<>> ELSE <<line>>)
    ELSE IF Head(text) = NL THEN <<line>> \o ReadLinesFrom(Tail(text), <<>>)
    ELSE ReadLinesFrom(Tail(text), Append(line, Head(text)))

ReadLines(text) == ReadLinesFrom(text, <<>>)

\* json.loads(s) returns: s is exactly one JSON document
Parses(line) == Len(line) = 1 /\ line[1].kind = "json"

JsonLoads(line) == line[1].val

\* a replay that keeps every record, whatever its key
RECURSIVE ReplayUnfiltered(_, _, _)
ReplayUnfiltered(lines, ts, acc) ==
    IF lines = <<>> THEN acc
    ELSE ReplayUnfiltered(Tail(lines), ts, Put(acc, Head(lines).dataset, Head(lines)))

\* lines 324-327
RECURSIVE Replay(_, _, _)
Replay(lines, ts, acc) ==
    IF lines = <<>> THEN acc
    ELSE LET line == Head(lines)
         IN Replay(Tail(lines), ts,
                   IF line.key \notin TaskKeys(ts) THEN acc
                   ELSE Put(acc, line.dataset, line))

\* a parser that reads the first document of a line and stops there
AllParseFirstDocument(text) ==
    \A i \in 1..Len(ReadLines(text)) :
        /\ ReadLines(text)[i] # <<>>
        /\ ReadLines(text)[i][1].kind = "json"

\* line 323: every line is parsed before any is used
AllParse(text) == \A i \in 1..Len(ReadLines(text)) : Parses(ReadLines(text)[i])

\* lines 319-327, for a file whose lines all parse
LoadResults(text, ts) ==
    LET lines == ReadLines(text)
    IN Replay([i \in 1..Len(lines) |-> JsonLoads(lines[i])], ts, EmptyDict)

------------------------------------------------------------------------------
(* The evaluation collaborator and the aggregate *)

\* what evaluate_model may return for a task: a mapping of metric names
EvalOutputs ==
    {("acc1" :> v) : v \in 1..MaxMetric} \cup {("mean_per_class_recall" :> 1)}

\* a record whose main metric is always acc1
MakeRecordAcc1(t, metrics) ==
    [key |-> t.key, dataset |-> TaskName(t),
     metrics |-> Put(metrics, "main_metric", Get(metrics, "acc1", null))]

\* lines 365-372
MakeRecord(t, metrics) ==
    [key |-> t.key, dataset |-> TaskName(t),
     metrics |-> Put(metrics, "main_metric", Get(metrics, MainMetricName(t), null))]

\* the main metrics that are not None, lines 392-396 (and 78-82)
Scored(res) == {d \in DOMAIN res : res[d].metrics["main_metric"] # null}

RECURSIVE SumOver(_, _)
SumOver(res, ds) ==
    IF ds = {} THEN 0
    ELSE LET d == CHOOSE x \in ds : TRUE
         IN res[d].metrics["main_metric"] + SumOver(res, ds \ {d})

\* no average was computed
Unset == [unset |-> TRUE]

\* np.mean, as the fraction sum/count; count 0 is numpy's nan
Mean(res) == [sum |-> SumOver(res, Scored(res)), count |-> Cardinality(Scored(res))]

\* the per-dataset columns of the database document, lines 49-53
MetricColumns(res) ==
    [d \in {x \in DOMAIN res : "main_metric" \in DOMAIN res[x].metrics
                               /\ res[x].metrics["main_metric"] # null}
       |-> res[d].metrics["main_metric"]]

------------------------------------------------------------------------------
(* The process *)

results_filename == prefix

\* what a launch keeps of the one before it (history)
NoRun == [done |-> FALSE, cut |-> -1, mid |-> -1, epoch |-> -1, iter |-> -1,
          tasks |-> <<>>, results |-> EmptyDict]

\* before the first launch: a task list, a checkpoints directory, and no
\* result yet
InitWith(configs, dirs, files) ==
    /\ tasklist \in configs
    /\ fs = [f \in files |-> <<>>]
    /\ ckpt_dir \in dirs
    /\ status = "idle"
    /\ pc = "start"
    /\ args = DefaultArgs
    /\ tasks = <<>>
    /\ prefix = PrefixEmpty
    /\ train_info = EmptyDict
    /\ results = EmptyDict
    /\ idx = 1
    /\ average = Unset
    /\ exit_status = 0
    /\ error = ""
    /\ printed = {}
    /\ edited = FALSE
    /\ completed = [f \in files |-> {}]
    /\ started = [f \in files |-> {}]
    /\ evals = <<>>
    /\ fs0 = fs
    /\ steps = <<>>
    /\ calls = <<>>
    /\ prev = NoRun

Init == InitWith(TaskConfigs, CkptDirs, ResultFiles)

\* a validation that asks only for the method name, the author and the email
ValidatedThree(a) == a.submit => \A f \in {"method_name", "author", "email"} : a[f] # None

\* lines 282-297
Validated(a) == a.submit => \A f \in RequiredFields : a[f] # None

\* the process ends where it is
Exit(code, err) ==
    /\ status' = "exit"
    /\ exit_status' = code
    /\ error' = err

\* tasklist.yml is edited between two launches
Reconfigure(cfg) ==
    /\ status = "exit"
    /\ cfg # tasklist
    /\ tasklist' = cfg
    /\ edited' = TRUE
    /\ UNCHANGED <<fs, ckpt_dir, status, pc, args, tasks, prefix, train_info,
                   results, idx, average, exit_status, error, printed, completed, started,
                   evals, fs0, steps, calls, prev>>

\* the process was killed between two tasks: the tasks before idx were each
\* evaluated and appended, no later one was ever begun, and tasklist.yml is
\* as it always was
KilledBetweenTasks ==
    /\ status = "exit" /\ error = "killed" /\ pc = "loop"
    /\ ~edited
    /\ \A i \in 1..Len(tasks) :
          IF i < idx THEN tasks[i].key \in completed[prefix]
          ELSE tasks[i].key \notin started[prefix]

\* how the launch that is ending is remembered (history)
Ended ==
    IF status = "idle" THEN NoRun
    ELSE [done |-> "final" \in printed,
          cut |-> IF KilledBetweenTasks THEN idx - 1 ELSE -1,
          mid |-> IF error = "killed" /\ pc \in {"evaluating", "appending"}
                  THEN idx ELSE -1,
          epoch |-> args.epoch, iter |-> args.iter,
          tasks |-> tasks,
          results |-> IF "final" \in printed THEN results ELSE EmptyDict]

\* lines 267-348: a launch, up to the task loop
Start(a) ==
    /\ status \in {"idle", "exit"}
    /\ prev' = Ended
    /\ args' = a
    /\ evals' = <<>>
    /\ steps' = <<>>
    /\ calls' = <<>>
    /\ fs0' = fs
    /\ idx' = 1
    /\ average' = Unset
    /\ UNCHANGED <<tasklist, fs, ckpt_dir, edited, completed, started>>
    /\ IF ~Validated(a)
       THEN \* AssertionError, lines 283-297
            /\ Exit(1, "AssertionError")
            /\ pc' = "start"
            /\ prefix' = SelectPrefix(a)
            /\ tasks' = <<>>
            /\ train_info' = EmptyDict
            /\ results' = EmptyDict
            /\ printed' = {}
       ELSE LET pfx == ResolvePrefix(a, ckpt_dir)
            IN /\ prefix' = pfx
               /\ tasks' = tasklist
               /\ train_info' = IF AllParse(fs[pfx])
                                THEN FallbackCheckpoint(TrainInfo(a), ckpt_dir)
                                ELSE TrainInfo(a)
               /\ IF ~AllParse(fs[pfx])
                  THEN \* json.JSONDecodeError, line 323
                       /\ Exit(1, "JSONDecodeError")
                       /\ pc' = "start"
                       /\ results' = EmptyDict
                       /\ printed' = {}
                  ELSE /\ status' = "running"
                       /\ pc' = "loop"
                       /\ exit_status' = 0
                       /\ error' = ""
                       /\ results' = LoadResults(fs[pfx], tasklist)
                       /\ printed' = IF TrainInfo(a).checkpoint \in ckpt_dir.files
                                     THEN {} ELSE {"warning"}

\* lines 350-355 and 376-379: the task's result is already there
SkipTask ==
    /\ status = "running" /\ pc = "loop"
    /\ idx <= Len(tasks)
    /\ TaskName(tasks[idx]) \in DOMAIN results
    /\ idx' = idx + 1
    /\ UNCHANGED <<tasklist, fs, ckpt_dir, status, pc, args, tasks, prefix,
                   train_info, results, average, exit_status, error, printed,
                   edited, completed, started, evals, fs0, steps, calls, prev>>

\* lines 357-358: evaluate_model is called
CallEvaluate ==
    /\ status = "running" /\ pc = "loop"
    /\ idx <= Len(tasks)
    /\ TaskName(tasks[idx]) \notin DOMAIN results
    /\ pc' = "evaluating"
    /\ evals' = Append(evals, tasks[idx].key)
    /\ started' = [started EXCEPT ![results_filename] = @ \cup {tasks[idx].key}]
    /\ UNCHANGED <<tasklist, fs, ckpt_dir, status, args, tasks, prefix,
                   train_info, results, idx, average, exit_status, error,
                   printed, edited, completed, fs0, steps, calls, prev>>

\* lines 358-372: evaluate_model returns
EvaluateReturns(metrics) ==
    /\ status = "running" /\ pc = "evaluating"
    /\ results' = Put(results, TaskName(tasks[idx]), MakeRecord(tasks[idx], metrics))
    /\ pc' = "appending"
    /\ UNCHANGED <<tasklist, fs, ckpt_dir, status, args, tasks, prefix,
                   train_info, idx, average, exit_status, error, printed, edited,
                   completed, started, evals, fs0, steps, calls, prev>>

\* a loop that catches the exception and tries the task again
EvaluateRaisesRetried ==
    /\ status = "running" /\ pc = "evaluating"
    /\ pc' = "loop"
    /\ UNCHANGED <<tasklist, fs, ckpt_dir, status, args, tasks, prefix, train_info,
                   results, idx, average, exit_status, error, printed, edited,
                   completed, started, evals, fs0, steps, calls, prev>>

\* line 358: evaluate_model raises; nothing catches it
EvaluateRaises ==
    /\ status = "running" /\ pc = "evaluating"
    /\ Exit(1, "EvaluationError")
    /\ UNCHANGED <<tasklist, fs, ckpt_dir, pc, args, tasks, prefix, train_info,
                   results, idx, average, printed, edited, completed, started, evals, fs0,
                   steps, calls, prev>>

\* a write that is put off to the end of the loop
WriteLineLater(text, rec) == text

\* a write to a file opened with "w"
WriteLineOverwrite(text, rec) == <<JsonDumps(rec), NL>>

\* a write that leaves out the line end
WriteLineNoEnd(text, rec) == text \o <<JsonDumps(rec)>>

\* line 374
WriteLine(text, rec) == text \o <<JsonDumps(rec), NL>>

\* lines 373-379: the record is appended, the score printed
AppendResult ==
    /\ status = "running" /\ pc = "appending"
    /\ fs' = [fs EXCEPT ![results_filename] =
                WriteLine(@, results[TaskName(tasks[idx])])]
    /\ completed' = [completed EXCEPT ![results_filename] = @ \cup {tasks[idx].key}]
    /\ pc' = "loop"
    /\ idx' = idx + 1
    /\ UNCHANGED <<tasklist, ckpt_dir, status, args, tasks, prefix, train_info,
                   results, average, exit_status, error, printed, edited, started, evals,
                   fs0, steps, calls, prev>>

\* what of line 374's write may have reached the file when the process dies
\* in it: nothing, a part of the document, or all of it but the line end
TornWrites(rec) == {<<>>, <<Frag>>, <<JsonDumps(rec)>>}

\* the process dies where it is (a signal, the machine, the disk filling up)
Crash ==
    /\ status = "running"
    /\ Exit(137, "killed")
    /\ IF pc = "appending"
       THEN \E w \in TornWrites(results[TaskName(tasks[idx])]) :
               fs' = [fs EXCEPT ![results_filename] = @ \o w]
       ELSE fs' = fs
    /\ UNCHANGED <<tasklist, ckpt_dir, pc, args, tasks, prefix, train_info,
                   results, idx, average, printed, edited, completed, started, evals, fs0,
                   steps, calls, prev>>

\* a pipeline that runs whether or not --submit was given
SubmissionAlways(a) == TRUE

\* line 400
SubmissionRequested(a) == a.submit

\* lines 381-401: the final report
FinishLoop ==
    /\ status = "running" /\ pc = "loop"
    /\ idx > Len(tasks)
    /\ printed' = printed \cup {"final"} \cup (IF args.submit THEN {"average"} ELSE {})
    /\ average' = IF args.submit THEN Mean(results) ELSE average
    /\ IF SubmissionRequested(args)
       THEN pc' = "hf" /\ UNCHANGED <<status, exit_status, error>>
       ELSE Exit(0, "") /\ pc' = pc
    /\ UNCHANGED <<tasklist, fs, ckpt_dir, args, tasks, prefix, train_info,
                   results, idx, edited, completed, started, evals, fs0, steps, calls, prev>>

------------------------------------------------------------------------------
(* The submission pipeline, lines 400-433 *)

\* the answers of an HTTP endpoint
HttpStatuses == {200, 500}

\* lines 407-411 and 417, 426: the banner, then sys.exit()
SubmissionError ==
    /\ printed' = printed \cup {"banner"}
    /\ Exit(0, "SystemExit")
    /\ pc' = pc

\* an exception nothing catches
Raise(err) == Exit(1, err) /\ pc' = pc

\* the next step
Goto(p) == pc' = p /\ UNCHANGED <<status, exit_status, error>>

\* lines 403-405 and push_files_to_hub, lines 110-158
PushFilesToHub ==
    /\ status = "running" /\ pc = "hf"
    /\ printed' = printed
    /\ IF args.skip_hf
       THEN Goto("db") /\ UNCHANGED <<steps, calls>>
       ELSE /\ steps' = Append(steps, "hf")
            /\ IF "scale" \notin DOMAIN train_info
               THEN \* line 126
                    Raise("KeyError") /\ calls' = calls
               ELSE IF args.samples = None
               THEN \* line 144
                    Raise("AttributeError") /\ calls' = calls
               ELSE \* line 152: the commit is sent, and lands or raises
                    /\ calls' = Append(calls, "create_commit")
                    /\ \E landed \in BOOLEAN :
                          IF landed THEN Goto("db") ELSE Raise("HfHubHTTPError")
    /\ UNCHANGED <<tasklist, fs, ckpt_dir, args, tasks, prefix, train_info,
                   results, idx, average, edited, completed, started, evals, fs0, prev>>

\* the keys of training_info lines 34-39 read
FirebaseKeysPresent(ti, a) ==
    /\ "scale" \in DOMAIN ti
    /\ {"model", "batch_size", "learning_rate"} \subseteq DOMAIN ti.scale_config
    /\ a.dataset_size = "" => "train_num_samples" \in DOMAIN ti.scale_config

\* lines 413-420 and submit_to_firebase, lines 31-68
SubmitToFirebase ==
    /\ status = "running" /\ pc = "db"
    /\ IF args.skip_db
       THEN Goto("slack") /\ UNCHANGED <<steps, calls, printed>>
       ELSE /\ steps' = Append(steps, "db")
            /\ IF ~FirebaseKeysPresent(train_info, args)
               THEN \* lines 34-39
                    Raise("KeyError") /\ UNCHANGED <<calls, printed>>
               ELSE \* line 67: the PUT is sent
                    /\ calls' = Append(calls, "firebase")
                    /\ \E code \in HttpStatuses :
                          IF code # 200
                          THEN SubmissionError
                          ELSE Goto("slack") /\ printed' = printed
    /\ UNCHANGED <<tasklist, fs, ckpt_dir, args, tasks, prefix, train_info,
                   results, idx, average, edited, completed, started, evals, fs0, prev>>

\* lines 431-433: the run ends well
Success ==
    /\ printed' = printed \cup {"success"}
    /\ Exit(0, "")
    /\ pc' = pc

\* lines 422-433 and submit_to_slack, lines 71-107
SubmitToSlack ==
    /\ status = "running" /\ pc = "slack"
    /\ IF args.skip_notification
       THEN Success /\ UNCHANGED <<steps, calls>>
       ELSE /\ steps' = Append(steps, "slack")
            /\ IF \/ "ImageNet 1k" \notin DOMAIN results
                  \/ "acc1" \notin DOMAIN results["ImageNet 1k"].metrics
               THEN \* line 84
                    Raise("KeyError") /\ UNCHANGED <<calls, printed>>
               ELSE IF results["ImageNet 1k"].metrics["acc1"] = null
               THEN \* line 88: None has no format .3f
                    Raise("TypeError") /\ UNCHANGED <<calls, printed>>
               ELSE \* line 105: the PUT is sent
                    /\ calls' = Append(calls, "slack")
                    /\ \E code \in HttpStatuses :
                          IF code # 200 THEN SubmissionError ELSE Success
    /\ UNCHANGED <<tasklist, fs, ckpt_dir, args, tasks, prefix, train_info,
                   results, idx, average, edited, completed, started, evals, fs0, prev>>

------------------------------------------------------------------------------

Next ==
    \/ \E cfg \in TaskConfigs : Reconfigure(cfg)
    \/ \E a \in ArgChoices : Start(a)
    \/ SkipTask
    \/ CallEvaluate
    \/ \E metrics \in EvalOutputs : EvaluateReturns(metrics)
    \/ EvaluateRaises
    \/ AppendResult
    \/ Crash
    \/ FinishLoop
    \/ PushFilesToHub
    \/ SubmitToFirebase
    \/ SubmitToSlack

Spec == Init /\ [][Next]_vars

------------------------------------------------------------------------------
(* Resumption *)

\* this launch was given arguments that pass lines 282-297 and reads the
\* task list the launch before it read, with the same checkpoint selector
SameRunAgain ==
    /\ status # "idle"
    /\ Validated(args)
    /\ tasks = prev.tasks
    /\ args.epoch = prev.epoch /\ args.iter = prev.iter

\* C1: when the launch before this one completed its task loop, and this
\* one has the same selector and task list, this launch calls evaluate_model
\* for no task, leaves the result file as it found it, and has the same
\* results as the launch before had at its end.
C1_IdempotentResumption ==
    (SameRunAgain /\ prev.done) =>
        /\ evals = <<>>
        /\ fs = fs0
        /\ results = prev.results

\* the records of a text, when every line parses
Records(text) == [i \in 1..Len(ReadLines(text)) |-> JsonLoads(ReadLines(text)[i])]

\* C2: a process killed between two tasks, after the first k tasks were each
\* evaluated and appended and before any later task was begun, leaves a
\* result file of exactly k records, those of the first k tasks in order;
\* the launch that follows with the same task list loads them, evaluates
\* none of the first k tasks, and the first task it evaluates is task k+1.
C2_PartialCrashSafety ==
    /\ KilledBetweenTasks =>
          /\ AllParse(fs[prefix])
          /\ Len(Records(fs[prefix])) = idx - 1
          /\ \A i \in 1..(idx - 1) : Records(fs[prefix])[i].key = tasks[i].key
    /\ (SameRunAgain /\ prev.cut >= 0) =>
          /\ error # "JSONDecodeError"
          /\ \A i \in 1..prev.cut :
                /\ TaskName(tasks[i]) \in DOMAIN results
                /\ \A j \in 1..Len(evals) : evals[j] # tasks[i].key
          /\ evals # <<>> => evals[1] = tasks[prev.cut + 1].key
          /\ (idx > prev.cut + 1 /\ prev.cut < Len(tasks)) => evals # <<>>

\* C2's case: a restart after a kill behind the first task has begun the
\* second task
C2_Witness ==
    /\ SameRunAgain /\ prev.cut = 1
    /\ Len(tasks) = 2
    /\ pc = "evaluating" /\ idx = 2

\* C3: after a crash while task k was being evaluated or appended (k > 1),
\* the launch that follows with the same task list loads the records of
\* the tasks before k, skips those tasks, and the first task it evaluates
\* is task k.
C3_CrashMidTask ==
    (SameRunAgain /\ prev.mid >= 2) =>
        /\ error # "JSONDecodeError"
        /\ \A i \in 1..(prev.mid - 1) :
              /\ TaskName(tasks[i]) \in DOMAIN results
              /\ \A j \in 1..Len(evals) : evals[j] # tasks[i].key
        /\ evals # <<>> => evals[1] = tasks[prev.mid].key
        /\ idx > prev.mid => evals # <<>>

------------------------------------------------------------------------------
(* Validation and loading *)

\* C5: a launch with --submit and a required provenance field unset ends in
\* the assertions of lines 282-297 with a non-zero status: evaluate_model is
\* never called, the result file is as the launch found it, and no
\* submission step runs and no endpoint is called.
C5_SubmissionGating ==
    (status # "idle" /\ args.submit /\ \E f \in RequiredFields : args[f] = None) =>
        /\ status = "exit" /\ error = "AssertionError" /\ exit_status # 0
        /\ evals = <<>>
        /\ fs = fs0
        /\ steps = <<>> /\ calls = <<>>

\* C5's case: the repository name is missing, and a result file with
\* records in it is there
C5_Witness ==
    /\ status = "exit" /\ error = "AssertionError"
    /\ args.submit /\ args.hf_repo_name = None
    /\ \E f \in DOMAIN fs : fs[f] # <<>>

\* the lines of the result file as the launch found it
FoundLines == ReadLines(fs0[prefix])

\* C6: when a line of the result file is not one JSON document, the launch
\* ends in the load with a non-zero status: evaluate_model is never called,
\* no record is held in memory, the file is left as found and no
\* submission step runs.
C6_MalformedLineFatal ==
    (/\ status # "idle" /\ Validated(args)
     /\ \E i \in 1..Len(FoundLines) : ~Parses(FoundLines[i])) =>
        /\ status = "exit" /\ error = "JSONDecodeError" /\ exit_status # 0
        /\ evals = <<>>
        /\ results = EmptyDict
        /\ fs = fs0
        /\ steps = <<>> /\ calls = <<>>

\* C6's case: a well-formed record is followed by a line that is not one
\* JSON document, and the launch has ended in the load
C6_Witness ==
    /\ status = "exit" /\ error = "JSONDecodeError"
    /\ Len(FoundLines) >= 2
    /\ Parses(FoundLines[1])
    /\ ~Parses(FoundLines[Len(FoundLines)])

\* the records of the file found whose key the task list no longer has
Stale == {i \in 1..Len(FoundLines) : JsonLoads(FoundLines[i]).key \notin TaskKeys(tasks)}

\* the results that belong to tasks of the task list
OfTasks(res) == [d \in {x \in DOMAIN res : res[x].key \in TaskKeys(tasks)} |-> res[d]]

\* the display names of the task list
TaskNames(ts) == {TaskName(ts[i]) : i \in 1..Len(ts)}

\* C7: when the result file holds records whose key is not in the task
\* list, the load raises nothing, no such record is among the results (what
\* the final report prints), the average is the one of the listed tasks'
\* records alone, and the database document has columns for listed tasks
\* only.
C7_TaskSetShrinkage ==
    (/\ status # "idle" /\ Validated(args)
     /\ \A i \in 1..Len(FoundLines) : Parses(FoundLines[i])
     /\ Stale # {}) =>
        /\ pc # "start" /\ error # "JSONDecodeError"
        /\ \A d \in DOMAIN results : results[d].key \in TaskKeys(tasks)
        /\ \A i \in Stale : JsonLoads(FoundLines[i]).dataset \notin DOMAIN results
        /\ average # Unset => average = Mean(OfTasks(results))
        /\ DOMAIN MetricColumns(results) \subseteq TaskNames(tasks)

\* C7's case: the file holds the record of a task that was removed from the
\* task list, and the launch has printed its report and its average
C7_Witness ==
    /\ status = "running" /\ pc = "hf"
    /\ \A i \in 1..Len(FoundLines) : Parses(FoundLines[i])
    /\ Stale # {}
    /\ "final" \in printed /\ average # Unset

------------------------------------------------------------------------------
(* The task loop *)

\* the records the launch has added to the result file
Added == SubSeq(fs[prefix], Len(fs0[prefix]) + 1, Len(fs[prefix]))

\* C10: evaluate_model is called at most once per task in a launch; when
\* it raises for task k the launch ends there with a non-zero status, k is
\* the last task evaluated, what the file held and the records of the tasks
\* evaluated before k are in the file, no record of k was added, and no
\* submission step runs.
C10_EvaluationFailureFatal ==
    /\ \A i, j \in 1..Len(evals) : i # j => evals[i] # evals[j]
    /\ error = "EvaluationError" =>
          /\ status = "exit" /\ exit_status # 0 /\ pc = "evaluating"
          /\ evals[Len(evals)] = tasks[idx].key
          /\ \A j \in 1..Len(evals) : \E i \in 1..idx : evals[j] = tasks[i].key
          /\ Len(fs[prefix]) >= Len(fs0[prefix])
          /\ SubSeq(fs[prefix], 1, Len(fs0[prefix])) = fs0[prefix]
          /\ Len(ReadLines(Added)) = Len(evals) - 1
          /\ \A n \in 1..Len(evals) - 1 :
                /\ Parses(ReadLines(Added)[n])
                /\ JsonLoads(ReadLines(Added)[n]).key = evals[n]
          /\ steps = <<>> /\ calls = <<>>

\* C10's case: the first task was evaluated and appended, and evaluate_model
\* raised for the second
C10_Witness ==
    /\ status = "exit" /\ error = "EvaluationError"
    /\ idx = 2 /\ Len(evals) = 2
    /\ Added # <<>>

------------------------------------------------------------------------------
(* Submission *)

Range(s) == {s[i] : i \in 1..Len(s)}

\* the place of a step in lines 403-429
StepRank(s) == CASE s = "hf" -> 1 [] s = "db" -> 2 [] s = "slack" -> 3

\* the process has left the step at pc, or died of the step itself
Past(p) ==
    \/ p = "hf" /\ pc \in {"db", "slack"}
    \/ p = "db" /\ pc = "slack"
    \/ pc = p /\ status = "exit" /\ error # "killed"

\* C4: when the database or the notification endpoint answers with a
\* status other than 200, the banner is printed, the answering step is the
\* last one run, the success message is not printed, and the process ends
\* with a non-zero exit status.
C4_SubmissionStepFailure ==
    "banner" \in printed =>
        /\ status = "exit"
        /\ steps # <<>> /\ steps[Len(steps)] \in {"db", "slack"}
        /\ calls # <<>> /\ calls[Len(calls)] \in {"firebase", "slack"}
        /\ "success" \notin printed
        /\ exit_status # 0

C9_SuccessfulSubmission ==
    (/\ status = "exit" /\ args = SubmitArgs
     /\ "final" \in printed
     /\ error \notin {"killed", "HfHubHTTPError"}
     /\ "banner" \notin printed) =>
        /\ steps = <<"hf", "db", "slack">>
        /\ "success" \in printed

------------------------------------------------------------------------------
(* Aggregation *)

\* the datasets of the results whose main metric is a number
NonNull == {d \in DOMAIN results : results[d].metrics["main_metric"] # null}

\* C11: the average is the sum of the main metrics that are not null over
\* their count; when there is none the final report still prints an
\* average, of count zero (numpy's nan), and the notification step composes
\* its message and calls the webhook instead of ending in an exception.
C11_AggregationCorrectness ==
    /\ pc \in {"hf", "db", "slack"} => "average" \in printed /\ average # Unset
    /\ average # Unset =>
          /\ average.count = Cardinality(NonNull)
          /\ average.sum = SumOver(results, NonNull)
    /\ (/\ NonNull = {}
        /\ pc = "slack" /\ status = "exit" /\ error # "killed"
        /\ ~args.skip_notification) =>
          /\ "slack" \in Range(calls)
          /\ error \notin {"KeyError", "TypeError"}

------------------------------------------------------------------------------
(* Persistence *)

\* the place of a task key in the task list
Position(k) == CHOOSE i \in 1..Len(tasks) : tasks[i].key = k

\* the lines the launch has added to the result file
AddedLines == ReadLines(Added)

\* C16: the tasks are evaluated in the order of the task list, one at a
\* time; the records the launch has appended are those of the evaluations
\* that returned, in that order, but for the one not yet written: the
\* count of appended records is the count of returned evaluations, or one
\* less while a record is being appended.
C16_ImmediatePersistence ==
    status = "running" =>
        /\ \A j, k \in 1..Len(evals) : j < k => Position(evals[j]) < Position(evals[k])
        /\ pc \in {"evaluating", "appending"} =>
              /\ evals # <<>>
              /\ evals[Len(evals)] = tasks[idx].key
        /\ Len(AddedLines) =
              (IF pc \in {"evaluating", "appending"} THEN Len(evals) - 1 ELSE Len(evals))
        /\ \A n \in 1..Len(AddedLines) :
              /\ Parses(AddedLines[n])
              /\ JsonLoads(AddedLines[n]).key = evals[n]

\* C16's case: the first task's record is in the file and the second
\* task's evaluation has returned and is not yet written
C16_Witness ==
    /\ status = "running" /\ pc = "appending"
    /\ Len(evals) = 2 /\ idx = 2
    /\ Len(AddedLines) = 1

\* the task of the task list with display name d
TaskNamed(d) == tasks[CHOOSE i \in 1..Len(tasks) : TaskName(tasks[i]) = d]

\* the datasets evaluate_model has returned for in this launch
ProducedHere ==
    {TaskName(tasks[Position(evals[j])]) :
        j \in {n \in 1..Len(evals) : ~(n = Len(evals) /\ pc = "evaluating")}}

\* C17: every result held, loaded or produced, has a main_metric that is
\* a number or null; for one produced in this launch it is the value the
\* collaborator gave for the task's main metric name, or null when it gave
\* none.
C17_MainMetric ==
    /\ \A d \in DOMAIN results :
          /\ "main_metric" \in DOMAIN results[d].metrics
          /\ results[d].metrics["main_metric"] \in Nat \cup {null}
    /\ \A d \in ProducedHere :
          LET m == results[d].metrics
              name == MainMetricName(TaskNamed(d))
          IN m["main_metric"] = (IF name \in DOMAIN m THEN m[name] ELSE null)

\* C17's case: of two results produced in this launch one has a number and
\* the other null for its main metric
C17_Witness ==
    /\ Cardinality(ProducedHere) = 2
    /\ \E d \in ProducedHere : results[d].metrics["main_metric"] = null
    /\ \E d \in ProducedHere : results[d].metrics["main_metric"] # null

IsPrefix(a, b) == Len(a) <= Len(b) /\ SubSeq(b, 1, Len(a)) = a

\* C18: every step leaves what the result files hold as a prefix of what
\* they hold after it; the only step that changes a file is the append of
\* the record of the task just evaluated, to the launch's own file, and
\* when it completes it has added that record and a line end, the record
\* being the one the results hold for the dataset.
C18_AppendOnly ==
    [][/\ \A f \in DOMAIN fs : IsPrefix(fs[f], fs'[f])
       /\ fs' # fs =>
             /\ status = "running" /\ pc = "appending"
             /\ \A f \in DOMAIN fs \ {prefix} : fs'[f] = fs[f]
             /\ status' = "running" =>
                   /\ fs'[prefix] =
                         fs[prefix] \o <<JsonDumps(results[TaskName(tasks[idx])]), NL>>
                   /\ results' = results]_vars

\* C18's case: a launch that loaded a record and appended another has run
\* a submission step
C18_Witness ==
    /\ steps # <<>>
    /\ fs0[prefix] # <<>>
    /\ Added # <<>>

------------------------------------------------------------------------------
(* The checkpoint resolver under every selector: launches with and without *)
(* --epoch and --iter, over checkpoints directories that hold or lack each *)
(* file                                                                     *)

\* the epoch a readable epoch_latest.pt holds
EmbeddedEpoch == 2

\* checkpoints/: any of epoch_latest.pt, epoch_1.pt, iter_1.pt; an
\* epoch_latest.pt holds an epoch or cannot be read for one
AllCkptDirs ==
    {[files |-> fl, latest_epoch |-> e] :
        fl \in SUBSET {CkptLatest, CkptEpoch(1), CkptIter(1)},
        e \in {EmbeddedEpoch, null}}

\* --epoch and --iter, each given or not
SelectorArgs ==
    {[DefaultArgs EXCEPT !.epoch = e, !.iter = i] : e \in {-1, 1}, i \in {-1, 1}}

\* the result files those launches can name
AllResultFiles == {PrefixEmpty, PrefixEpoch(1), PrefixIter(1), PrefixEpoch(EmbeddedEpoch)}

InitCkpt == InitWith({<<TaskImageNet>>}, AllCkptDirs, AllResultFiles)

NextCkpt ==
    \/ \E a \in SelectorArgs : Start(a)
    \/ SkipTask
    \/ CallEvaluate
    \/ \E metrics \in EvalOutputs : EvaluateReturns(metrics)
    \/ AppendResult
    \/ FinishLoop

SpecCkpt == InitCkpt /\ [][NextCkpt]_vars

\* epoch_latest.pt is there and holds an epoch
LatestReadable == CkptLatest \in ckpt_dir.files /\ ckpt_dir.latest_epoch # null

\* C14: with --epoch the path is epoch_<epoch>.pt and the prefix
\* epoch_<epoch>_, whatever --iter is; otherwise with --iter they are
\* iter_<iter>.pt and iter_<iter>_; otherwise the path is epoch_latest.pt
\* and the prefix is epoch_<embedded>_ when that file is read and holds an
\* epoch, empty when it is not; in every case the launch goes on to the
\* task loop.
C14_CheckpointResolution ==
    status # "idle" =>
        /\ pc # "start"
        /\ args.epoch >= 0 =>
              /\ CheckpointPath(args) = CkptEpoch(args.epoch)
              /\ prefix = PrefixEpoch(args.epoch)
        /\ (args.epoch < 0 /\ args.iter >= 0) =>
              /\ CheckpointPath(args) = CkptIter(args.iter)
              /\ prefix = PrefixIter(args.iter)
        /\ (args.epoch < 0 /\ args.iter < 0) =>
              /\ CheckpointPath(args) = CkptLatest
              /\ LatestReadable => prefix = PrefixEpoch(ckpt_dir.latest_epoch)
              /\ ~LatestReadable => prefix = PrefixEmpty

\* C14's case: --epoch and --iter are both given, and a launch has appended
\* a record to the file the epoch names
C14_Witness ==
    /\ args.epoch >= 0 /\ args.iter >= 0
    /\ pc = "loop" /\ idx = 2
    /\ fs[PrefixEpoch(args.epoch)] # <<>>

\* C12: when the checkpoint the selectors name is not there, the launch
\* prints the warning, passes epoch_latest.pt on as the checkpoint and goes
\* on to the task loop, whether or not epoch_latest.pt is there; when it is
\* there, nothing is warned of or replaced.
C12_CheckpointFallback ==
    status # "idle" =>
        IF CheckpointPath(args) \notin ckpt_dir.files
        THEN /\ pc # "start" /\ error = ""
             /\ "warning" \in printed
             /\ train_info.checkpoint = CkptLatest
        ELSE /\ "warning" \notin printed
             /\ train_info.checkpoint = CheckpointPath(args)

\* C12's case: epoch_1.pt was asked for, neither it nor epoch_latest.pt is
\* there, and the launch has evaluated its task and finished
C12_Witness ==
    /\ args.epoch = 1
    /\ CkptEpoch(1) \notin ckpt_dir.files /\ CkptLatest \notin ckpt_dir.files
    /\ "final" \in printed /\ evals # <<>>

\* C19: the checkpoint evaluate_model is given is the one the selectors
\* name, from which the prefix of the result file was taken.
C19_NamespaceMatchesCheckpoint ==
    (status = "running" /\ pc = "evaluating") =>
        train_info.checkpoint = CheckpointPath(args)

------------------------------------------------------------------------------
(* Durability: the machine may go down, not only the process *)

\* lines 373-374 write and close the file and never fsync it: when the
\* machine goes down, of what this launch has written any part from some
\* point on may not have reached the disk
PowerLoss ==
    /\ status = "running"
    /\ Exit(1, "poweroff")
    /\ \E n \in Len(fs0[prefix])..Len(fs[prefix]) :
          fs' = [fs EXCEPT ![prefix] = SubSeq(@, 1, n)]
    /\ UNCHANGED <<tasklist, ckpt_dir, pc, args, tasks, prefix, train_info,
                   results, idx, average, printed, edited, completed, started,
                   evals, fs0, steps, calls, prev>>

NextDurable ==
    \/ Next
    \/ PowerLoss

SpecDurable == Init /\ [][NextDurable]_vars

\* C13: a task whose append to this result file has returned is evaluated
\* by no later launch: what was appended is on the disk before the next
\* task begins and stays there, whatever ends the process.
C13_DurableAppend ==
    (status = "running" /\ pc = "evaluating") =>
        tasks[idx].key \notin completed[prefix]

------------------------------------------------------------------------------
(* Task lists whose display names change: tasklist.yml gives the task       *)
(* mnist a name between two launches, or takes it away again               *)

TaskMnistNamed ==
    Task("mnist", ("name" :> "MNIST") @@ ("main_metric" :> "mean_per_class_recall"))

RenameConfigs == { <<TaskMnist>>, <<TaskMnistNamed>> }

InitNames == InitWith(RenameConfigs, CkptDirs, ResultFiles)

NextNames ==
    \/ \E cfg \in RenameConfigs : Reconfigure(cfg)
    \/ Start(DefaultArgs)
    \/ SkipTask
    \/ CallEvaluate
    \/ \E metrics \in EvalOutputs : EvaluateReturns(metrics)
    \/ AppendResult
    \/ FinishLoop

SpecNames == InitNames /\ [][NextNames]_vars

\* C15: when the task loop has ended the results hold one entry for each
\* task of the task list, with that task's key, and nothing else; and a
\* task is skipped only for a result that has its key.
C15_OneResultPerTask ==
    /\ "final" \in printed =>
          /\ DOMAIN results = TaskNames(tasks)
          /\ Cardinality(DOMAIN results) = Len(tasks)
          /\ \A i \in 1..Len(tasks) : results[TaskName(tasks[i])].key = tasks[i].key
    /\ (/\ status = "running" /\ pc = "loop" /\ idx <= Len(tasks)
        /\ TaskName(tasks[idx]) \in DOMAIN results) =>
          results[TaskName(tasks[idx])].key = tasks[idx].key

====
